---- MODULE Spec2Model ----
\* Model of the SSE EventService (services/event-service.ts): the client
\* registry, the dispatch path, the heartbeat loop and the queries, together
\* with the ReadableStream controllers the service writes to.
\*
\* JavaScript runs every handler to completion on one thread, so each public
\* method, the stream's cancel callback and one heartbeat tick are one atomic
\* action.  Time is counted in units of one pingInterval.
EXTENDS Integers, Sequences, FiniteSets, TLC

VARIABLES
  clients,          \* this.clients: the Map, as its entries in insertion order
  streams,          \* every ReadableStream created so far; a controller is an index
  totalEventsSent,  \* this.totalEventsSent
  lastEventTime,    \* this.lastEventTime (Never until the first delivery)
  timer,            \* TRUE while the setInterval of startPingInterval is armed
  nextTick,         \* the time at which the interval fires next
  now,              \* Date.now()
  last,             \* the last call made and what it returned (observation only)
  hook,             \* one mounted useSSE hook: its React state, refs and closure
  singleton         \* utils/notifications.ts: the engines it made, and eventService

vars == <<clients, streams, totalEventsSent, lastEventTime, timer, nextTick, now, last,
          hook, singleton>>

----------------------------------------------------------------------------
\* Bounds of the exploration.
MaxConn == 2      \* streams opened by createConnection (Spec, SpecDispatch)
MaxBurst == 3     \* streams opened by createConnection (SpecCapacity)
MaxTime == 3      \* the clock stops here
MaxEvents == 4    \* cap on totalEventsSent
MaxText == 3      \* length of a string payload, in tokens
MaxAttempts == 5  \* reconnects a hook makes without an open in between
MaxEngines == 3   \* engines made through utils/notifications.ts

\* The configuration the engine is constructed with.
PingInterval == 1
ClientTimeout == 2
MaxClients == 2

Undefined == "undefined"   \* an absent optional string
Never == -1                \* lastEventTime before any delivery

\* JavaScript truthiness of an optional string: undefined and "" are falsy.
Truthy(v) == v # Undefined /\ v # ""

\* An optional Record<string,string>: absent, or a set of <<key, value>> pairs.
NoMeta == [present |-> FALSE, entries |-> {}]
Meta(S) == [present |-> TRUE, entries |-> S]

\* An optional string[]: absent, or the set of its elements.
NoIds == [present |-> FALSE, ids |-> {}]
IdList(S) == [present |-> TRUE, ids |-> S]

----------------------------------------------------------------------------
\* Events.  A text is a sequence of tokens; the token "\n" is a line break.
NL == "\n"

SSEEvent(id, ev, retry, data) == [id |-> id, event |-> ev, retry |-> retry, data |-> data]

StringData(text) == [kind |-> "string", text |-> text]
ObjectData(json) == [kind |-> "object", text |-> <<json>>]
UndefinedData == [kind |-> "undefined", text |-> <<>>]

\* text.split("\n")
RECURSIVE Split(_)
Split(text) ==
  IF \A i \in 1..Len(text) : text[i] # NL THEN <<text>>
  ELSE LET i == CHOOSE j \in 1..Len(text) :
                  text[j] = NL /\ \A k \in 1..(j - 1) : text[k] # NL
       IN <<SubSeq(text, 1, i - 1)>> \o Split(SubSeq(text, i + 1, Len(text)))

DataLines(segs) == [i \in 1..Len(segs) |-> [field |-> "data", value |-> segs[i]]]

\* The empty line the closing "\n\n" leaves after the last data line.
BlankLine == [field |-> "", value |-> <<>>]

\* formatEvent: the frame as its lines, or a throw when JSON.stringify yields
\* undefined and .split is called on it.
formatEvent(event) ==
  IF event.data.kind = "undefined" THEN [threw |-> TRUE, message |-> <<>>]
  ELSE [threw |-> FALSE,
        message |->
          (IF Truthy(event.id) THEN <<[field |-> "id", value |-> <<event.id>>]>> ELSE <<>>)
          \o (IF Truthy(event.event) THEN <<[field |-> "event", value |-> <<event.event>>]>> ELSE <<>>)
          \o (IF Truthy(event.retry) /\ event.retry # "0"
              THEN <<[field |-> "retry", value |-> <<event.retry>>]>> ELSE <<>>)
          \o DataLines(Split(event.data.text))
          \o <<BlankLine>>]

ConnectedEvent == SSEEvent(Undefined, "connected", Undefined, ObjectData("{clientId,connectedAt}"))
Heartbeat == SSEEvent(Undefined, "ping", Undefined, ObjectData("{timestamp}"))

----------------------------------------------------------------------------
\* ReadableStreamDefaultController, per the WHATWG Streams standard.  frames is
\* every chunk ever enqueued; of the queue only its emptiness is observable by
\* the controller (close), so unread says whether a chunk is still queued.

NewStream(clientId) ==
  [clientId |-> clientId, state |-> "readable", closeRequested |-> FALSE,
   frames |-> <<>>, unread |-> FALSE]

\* ReadableStreamDefaultControllerCanCloseOrEnqueue
CanCloseOrEnqueue(s) == s.state = "readable" /\ ~s.closeRequested

\* controller.enqueue(chunk): throws a TypeError unless CanCloseOrEnqueue.
enqueue(s, chunk) ==
  IF CanCloseOrEnqueue(s)
  THEN [threw |-> FALSE, stream |-> [s EXCEPT !.frames = Append(@, chunk), !.unread = TRUE]]
  ELSE [threw |-> TRUE, stream |-> s]

\* controller.close(): throws a TypeError unless CanCloseOrEnqueue; closes at
\* once when the queue is empty, otherwise when the last chunk has been read.
close(s) ==
  IF CanCloseOrEnqueue(s)
  THEN [threw |-> FALSE,
        stream |-> IF ~s.unread
                   THEN [s EXCEPT !.state = "closed", !.closeRequested = TRUE]
                   ELSE [s EXCEPT !.closeRequested = TRUE]]
  ELSE [threw |-> TRUE, stream |-> s]

----------------------------------------------------------------------------
\* The Map this.clients.

Ids(cl) == {cl[i].id : i \in 1..Len(cl)}
Has(cl, id) == id \in Ids(cl)
Pos(cl, id) == CHOOSE i \in 1..Len(cl) : cl[i].id = id
Get(cl, id) == cl[Pos(cl, id)]

\* Map.set: a new key is appended, an existing key keeps its position.
MapSet(cl, c) == IF Has(cl, c.id) THEN [cl EXCEPT ![Pos(cl, c.id)] = c] ELSE Append(cl, c)

\* Map.delete
MapDelete(cl, id) ==
  IF Has(cl, id)
  THEN LET p == Pos(cl, id) IN SubSeq(cl, 1, p - 1) \o SubSeq(cl, p + 1, Len(cl))
  ELSE cl

\* The engine's fields as one value, threaded through the methods.
Store == [clients |-> clients, streams |-> streams,
          totalEventsSent |-> totalEventsSent, lastEventTime |-> lastEventTime]

----------------------------------------------------------------------------
\* disconnectClient(clientId)
disconnectClient(st, clientId) ==
  IF ~Has(st.clients, clientId) THEN [st |-> st, ret |-> FALSE]
  ELSE LET client == Get(st.clients, clientId)
           c == close(st.streams[client.controller])
       IN IF c.threw THEN [st |-> st, ret |-> FALSE]
          ELSE [st |-> [st EXCEPT !.streams[client.controller] = c.stream,
                                  !.clients = MapDelete(@, clientId)],
                ret |-> TRUE]

\* Mutant: sendToClient counting the deliveries that failed as well.
sendToClientCountsFailures(st, clientId, event) ==
  IF ~Has(st.clients, clientId) THEN [st |-> st, ret |-> FALSE, threw |-> FALSE]
  ELSE LET client == Get(st.clients, clientId)
           f == formatEvent(event)
           e == enqueue(st.streams[client.controller], f.message)
       IN IF f.threw \/ e.threw
          THEN [st |-> [disconnectClient(st, clientId).st EXCEPT !.totalEventsSent = @ + 1],
                ret |-> FALSE, threw |-> TRUE]
          ELSE [st |-> [st EXCEPT !.streams[client.controller] = e.stream,
                                  !.clients[Pos(st.clients, clientId)].delivered = now,
                                  !.totalEventsSent = @ + 1,
                                  !.lastEventTime = now],
                ret |-> TRUE, threw |-> FALSE]

\* Mutant: sendToClient counting a delivery for an id it does not find.
sendToClientCountsAbsent(st, clientId, event) ==
  IF ~Has(st.clients, clientId)
  THEN [st |-> [st EXCEPT !.totalEventsSent = @ + 1, !.lastEventTime = now],
        ret |-> FALSE, threw |-> FALSE]
  ELSE LET client == Get(st.clients, clientId)
           f == formatEvent(event)
           e == enqueue(st.streams[client.controller], f.message)
       IN IF f.threw \/ e.threw
          THEN [st |-> disconnectClient(st, clientId).st, ret |-> FALSE, threw |-> TRUE]
          ELSE [st |-> [st EXCEPT !.streams[client.controller] = e.stream,
                                  !.clients[Pos(st.clients, clientId)].delivered = now,
                                  !.totalEventsSent = @ + 1,
                                  !.lastEventTime = now],
                ret |-> TRUE, threw |-> FALSE]

\* sendToClient(clientId, event); threw says the catch block ran.
sendToClient(st, clientId, event) ==
  IF ~Has(st.clients, clientId) THEN [st |-> st, ret |-> FALSE, threw |-> FALSE]
  ELSE LET client == Get(st.clients, clientId)
           f == formatEvent(event)
           e == enqueue(st.streams[client.controller], f.message)
       IN IF f.threw \/ e.threw
          THEN [st |-> disconnectClient(st, clientId).st, ret |-> FALSE, threw |-> TRUE]
          ELSE [st |-> [st EXCEPT !.streams[client.controller] = e.stream,
                                  !.clients[Pos(st.clients, clientId)].delivered = now,
                                  !.totalEventsSent = @ + 1,
                                  !.lastEventTime = now],
                ret |-> TRUE, threw |-> FALSE]

\* Mutant: the capacity check off by one.
atCapacityOffByOne(st) == Len(st.clients) > MaxClients

\* The capacity check at the head of createConnection.
atCapacity(st) == Len(st.clients) >= MaxClients

\* generateClientId: `rt_${Date.now()}_${random}`
generateClientId(r) == <<now, r>>

\* Mutant: createConnection without the connected event.
createConnectionSilent(st, options, r) ==
  LET clientId == generateClientId(r)
      controller == Len(st.streams) + 1
      client == [id |-> clientId, userId |-> options.userId,
                 sessionId |-> options.sessionId, controller |-> controller,
                 connectedAt |-> now, lastPing |-> now,
                 metadata |-> options.metadata,
                 delivered |-> Never]
  IN [st EXCEPT !.streams = Append(@, NewStream(clientId)),
                !.clients = MapSet(@, client)]

\* createConnection(options), past the capacity check: the stream's start
\* callback runs inside the ReadableStream constructor.
createConnection(st, options, r) ==
  LET clientId == generateClientId(r)
      controller == Len(st.streams) + 1
      client == [id |-> clientId, userId |-> options.userId,
                 sessionId |-> options.sessionId, controller |-> controller,
                 connectedAt |-> now, lastPing |-> now,
                 metadata |-> options.metadata,
                 delivered |-> Never]
      st1 == [st EXCEPT !.streams = Append(@, NewStream(clientId)),
                        !.clients = MapSet(@, client)]
  IN sendToClient(st1, clientId, ConnectedEvent).st

----------------------------------------------------------------------------
\* Filters and queries.

EmptyFilter == [clientIds |-> NoIds, userId |-> Undefined,
                sessionId |-> Undefined, metadata |-> NoMeta]

ByUser(u) == [EmptyFilter EXCEPT !.userId = u]
BySession(x) == [EmptyFilter EXCEPT !.sessionId = x]
ByMetadata(S) == [EmptyFilter EXCEPT !.metadata = Meta(S)]
ByIds(S) == [EmptyFilter EXCEPT !.clientIds = IdList(S)]

\* The body of the loop of getClientsByFilter: TRUE when no `continue` is taken.
FilterKeeps(filter, client) ==
  /\ ~(filter.clientIds.present /\ client.id \notin filter.clientIds.ids)
  /\ ~(Truthy(filter.userId) /\ client.userId # filter.userId)
  /\ ~(Truthy(filter.sessionId) /\ client.sessionId # filter.sessionId)
  /\ ~(filter.metadata.present
       /\ ~(\A kv \in filter.metadata.entries :
              client.metadata.present /\ kv \in client.metadata.entries))

\* getClientsByFilter(filter)
getClientsByFilter(cl, filter) ==
  LET Keep(client) == FilterKeeps(filter, client) IN SelectSeq(cl, Keep)

IdsOf(cl) == [i \in 1..Len(cl) |-> cl[i].id]

\* getStats(): clientsByUser counts the clients with a truthy userId; the
\* average is reported as its numerator, totalConnectionDuration.
RECURSIVE SumDurations(_, _)
SumDurations(cl, i) ==
  IF i > Len(cl) THEN 0 ELSE (now - cl[i].connectedAt) + SumDurations(cl, i + 1)

getStats(st) ==
  LET users == {st.clients[i].userId : i \in {j \in 1..Len(st.clients) : Truthy(st.clients[j].userId)}}
  IN [totalClients |-> Len(st.clients),
      clientsByUser |-> [u \in users |->
                           Cardinality({i \in 1..Len(st.clients) : st.clients[i].userId = u})],
      totalConnectionDuration |-> SumDurations(st.clients, 1),
      totalEventsSent |-> st.totalEventsSent,
      lastEventTime |-> st.lastEventTime]

----------------------------------------------------------------------------
\* Fan-out.

\* The reduce of sendToClients over the array the filter returned.
RECURSIVE reduce(_, _, _, _)
reduce(acc, targets, i, event) ==
  IF i > Len(targets) THEN acc
  ELSE LET r == sendToClient(acc.st, targets[i], event)
       IN reduce([st |-> r.st, count |-> IF r.ret THEN acc.count + 1 ELSE acc.count],
                 targets, i + 1, event)

\* sendToClients(filter, event)
sendToClients(st, filter, event) ==
  reduce([st |-> st, count |-> 0],
         IdsOf(getClientsByFilter(st.clients, filter)), 1, event)

\* broadcast(event)
broadcast(st, event) == sendToClients(st, EmptyFilter, event)

\* sendToUser(userId, event)
sendToUser(st, userId, event) ==
  sendToClients(st, ByUser(userId), event)

----------------------------------------------------------------------------
\* Heartbeat.

\* Mutant: the ping loop without the refresh of lastPing.
RECURSIVE pingLoopNoRefresh(_, _, _)
pingLoopNoRefresh(st, order, i) ==
  IF i > Len(order) THEN st
  ELSE IF ~Has(st.clients, order[i]) THEN pingLoopNoRefresh(st, order, i + 1)
  ELSE pingLoopNoRefresh(sendToClient(st, order[i], Heartbeat).st, order, i + 1)

\* Mutant: the ping loop ending at the first ping that fails.
RECURSIVE pingLoopStopsAtFailure(_, _, _)
pingLoopStopsAtFailure(st, order, i) ==
  IF i > Len(order) THEN st
  ELSE IF ~Has(st.clients, order[i]) THEN pingLoopStopsAtFailure(st, order, i + 1)
  ELSE LET r == sendToClient(st, order[i], Heartbeat)
       IN IF r.ret
          THEN pingLoopStopsAtFailure(
                 [r.st EXCEPT !.clients[Pos(r.st.clients, order[i])].lastPing = now],
                 order, i + 1)
          ELSE r.st

\* The for-of loop of the interval callback over this.clients.values(): an
\* entry deleted before the iterator reaches it is skipped.
RECURSIVE pingLoop(_, _, _)
pingLoop(st, order, i) ==
  IF i > Len(order) THEN st
  ELSE IF ~Has(st.clients, order[i]) THEN pingLoop(st, order, i + 1)
  ELSE LET r == sendToClient(st, order[i], Heartbeat)
       IN pingLoop(IF r.ret
                   THEN [r.st EXCEPT !.clients[Pos(r.st.clients, order[i])].lastPing = now]
                   ELSE r.st,
                   order, i + 1)

\* cleanupStaleClients(), over this.clients.entries()
RECURSIVE cleanupLoop(_, _, _)
cleanupLoop(st, order, i) ==
  IF i > Len(order) THEN st
  ELSE IF Has(st.clients, order[i])
          /\ now - Get(st.clients, order[i]).lastPing > ClientTimeout
       THEN cleanupLoop(disconnectClient(st, order[i]).st, order, i + 1)
       ELSE cleanupLoop(st, order, i + 1)

cleanupStaleClients(st) == cleanupLoop(st, IdsOf(st.clients), 1)

\* One run of the setInterval callback of startPingInterval.
heartbeatTick(st) == cleanupStaleClients(pingLoop(st, IdsOf(st.clients), 1))

\* destroy(), after clearInterval: disconnect every key, then clear the Map.
RECURSIVE destroyLoop(_, _, _)
destroyLoop(st, order, i) ==
  IF i > Len(order) THEN st
  ELSE destroyLoop(disconnectClient(st, order[i]).st, order, i + 1)

destroy(st) == [destroyLoop(st, IdsOf(st.clients), 1) EXCEPT !.clients = <<>>]

\* ReadableStreamCancel on a readable stream: the stream is closed and its
\* queue dropped before the source's cancel callback runs.
cancelled(s) == [s EXCEPT !.state = "closed", !.unread = FALSE]

\* The cancel callback of the stream created by createConnection.
cancelCallback(st, clientId) == disconnectClient(st, clientId)

\* The consumer reads the queue empty; that closes a stream with a pending
\* close.
readChunks(s) ==
  IF s.closeRequested
  THEN [s EXCEPT !.unread = FALSE, !.state = "closed"]
  ELSE [s EXCEPT !.unread = FALSE]

----------------------------------------------------------------------------
NoId == <<-1, 0>>

\* The observation of a call: its name and arguments, and what it returned
\* (ok: the boolean, or FALSE for a throw; count: the number; out: the text).
NoEvent == SSEEvent(Undefined, Undefined, Undefined, UndefinedData)

Idle == [op |-> "new", id |-> NoId, filter |-> EmptyFilter, event |-> Undefined,
         ok |-> TRUE, count |-> 0, arg |-> NoEvent, out |-> <<>>]

Call(op) == [Idle EXCEPT !.op = op]

\* useSSE before its first render: the useState and useRef initial values.
\* closure is the reconnectAttempts that the memoized connect callback in use
\* closed over; timeout is the delay of the pending reconnect timer, or
\* NoTimeout; attempts counts the reconnects made since the stream last opened
\* (observation only).
NoTimeout == -1

HookInit ==
  [mounted |-> FALSE,
   maxReconnectAttempts |-> 0,
   isConnected |-> FALSE, isConnecting |-> FALSE,
   error |-> "null",
   reconnectAttempts |-> 0,
   closure |-> 0,
   eventSource |-> "null",
   timeout |-> NoTimeout,
   attempts |-> 0]

\* notifications.ts when the module is loaded: no engine made, eventService
\* null (0).
ModuleInit == [engines |-> <<>>, eventService |-> 0]

Init ==
  /\ clients = <<>>
  /\ streams = <<>>
  /\ totalEventsSent = 0
  /\ lastEventTime = Never
  /\ timer = TRUE
  /\ nextTick = PingInterval
  /\ now = 0
  /\ last = Idle
  /\ hook = HookInit
  /\ singleton = ModuleInit

Commit(st) ==
  /\ clients' = st.clients
  /\ streams' = st.streams
  /\ totalEventsSent' = st.totalEventsSent
  /\ lastEventTime' = st.lastEventTime

Engine == <<clients, streams, totalEventsSent, lastEventTime>>
Clock == <<timer, nextTick, now>>
Outside == <<hook, singleton>>

\* Every id the engine has handed out, and one it never did.
KnownIds == {streams[s].clientId : s \in 1..Len(streams)} \cup {NoId}

CreateConnection(Options, Randoms, Cap) ==
  \E options \in Options, r \in Randoms :
    IF atCapacity(Store)
    THEN /\ last' = [Call("createConnection") EXCEPT !.ok = FALSE]
         /\ UNCHANGED <<Engine, Clock, Outside>>
    ELSE /\ Len(streams) < Cap
         /\ totalEventsSent < MaxEvents
         /\ Commit(createConnection(Store, options, r))
         /\ last' = [Call("createConnection") EXCEPT !.id = generateClientId(r)]
         /\ UNCHANGED <<Clock, Outside>>

SendToClient(Events) ==
  \E id \in KnownIds, event \in Events :
    LET r == sendToClient(Store, id, event) IN
    /\ totalEventsSent < MaxEvents
    /\ Commit(r.st)
    /\ last' = [Call("sendToClient") EXCEPT !.id = id, !.event = event.event, !.ok = r.ret]
    /\ UNCHANGED <<Clock, Outside>>

Fanout(op, filter, event, r) ==
  /\ totalEventsSent + Len(clients) <= MaxEvents
  /\ Commit(r.st)
  /\ last' = [Call(op) EXCEPT !.filter = filter, !.event = event.event, !.count = r.count]
  /\ UNCHANGED <<Clock, Outside>>

SendToClients(Filters, Events) ==
  \E filter \in Filters, event \in Events :
    Fanout("sendToClients", filter, event, sendToClients(Store, filter, event))

Broadcast(Events) ==
  \E event \in Events :
    Fanout("broadcast", EmptyFilter, event, broadcast(Store, event))

SendToUser(Users, Events) ==
  \E userId \in Users, event \in Events :
    Fanout("sendToUser", ByUser(userId), event,
           sendToUser(Store, userId, event))

DisconnectClient ==
  \E id \in KnownIds :
    LET r == disconnectClient(Store, id) IN
    /\ Commit(r.st)
    /\ last' = [Call("disconnectClient") EXCEPT !.id = id, !.ok = r.ret]
    /\ UNCHANGED <<Clock, Outside>>

GetClientsByFilter(Filters) ==
  \E filter \in Filters :
    /\ last' = [Call("getClientsByFilter") EXCEPT
                  !.filter = filter,
                  !.count = Len(getClientsByFilter(clients, filter))]
    /\ UNCHANGED <<Engine, Clock, Outside>>

GetStats ==
  /\ last' = [Call("getStats") EXCEPT !.count = getStats(Store).totalClients]
  /\ UNCHANGED <<Engine, Clock, Outside>>

\* The transport closes the connection: the consumer cancels the stream.
TransportCancel ==
  \E s \in 1..Len(streams) :
    /\ streams[s].state = "readable"
    /\ LET id == streams[s].clientId
           r == cancelCallback([Store EXCEPT !.streams[s] = cancelled(@)], id)
       IN /\ Commit(r.st)
          /\ last' = [Call("cancel") EXCEPT !.id = id, !.count = s, !.ok = r.ret]
    /\ UNCHANGED <<Clock, Outside>>

\* The transport reads what is queued on a stream.
TransportRead ==
  \E s \in 1..Len(streams) :
    /\ streams[s].state = "readable"
    /\ streams[s].unread
    /\ streams' = [streams EXCEPT ![s] = readChunks(@)]
    /\ last' = Call("read")
    /\ UNCHANGED <<clients, totalEventsSent, lastEventTime, Clock, Outside>>

\* The interval fires.
Tick ==
  /\ timer
  /\ now = nextTick
  /\ totalEventsSent + Len(clients) <= MaxEvents
  /\ Commit(heartbeatTick(Store))
  /\ last' = Call("tick")
  /\ nextTick' = nextTick + PingInterval
  /\ UNCHANGED <<timer, now, Outside>>

\* Time passes; a due interval fires before the clock moves on.
Advance ==
  /\ now < MaxTime
  /\ timer => now < nextTick
  /\ now' = now + 1
  /\ last' = Call("advance")
  /\ UNCHANGED <<Engine, timer, nextTick, Outside>>

Destroy ==
  /\ Commit(destroy(Store))
  /\ timer' = FALSE
  /\ last' = Call("destroy")
  /\ UNCHANGED <<nextTick, now, Outside>>

----------------------------------------------------------------------------
\* Inputs.

TestEvent == SSEEvent(Undefined, "test", Undefined, ObjectData("{message}"))
BadEvent == SSEEvent(Undefined, "bad", Undefined, UndefinedData)
AppEvents == {TestEvent, BadEvent}

Rand == {1, 2}   \* outcomes of Math.random() in generateClientId

UserA == [userId |-> "a", sessionId |-> Undefined, metadata |-> NoMeta]
UserB == [userId |-> "b", sessionId |-> "s",
          metadata |-> Meta({<<"role", "admin">>, <<"team", "x">>})]
UserEmpty == [userId |-> "", sessionId |-> "", metadata |-> Meta({<<"role", "user">>})]

\* The engine over time: connections, dispatch, the transport, the heartbeat.
Next ==
  \/ CreateConnection({UserA}, {1}, MaxConn)
  \/ SendToClient(AppEvents)
  \/ Broadcast({TestEvent})
  \/ DisconnectClient
  \/ TransportCancel
  \/ TransportRead
  \/ Tick
  \/ Advance

Spec == Init /\ [][Next]_vars

\* Dispatch and queries within one instant of the clock, over clients of
\* different users, sessions and metadata.
DispatchFilters ==
  {BySession("s"), ByMetadata({<<"role", "admin">>})}
  \cup {ByIds({id}) : id \in KnownIds \ {NoId}}

NextDispatch ==
  \/ CreateConnection({UserA, UserB, UserEmpty}, Rand, MaxConn)
  \/ SendToClients(DispatchFilters, AppEvents)
  \/ Broadcast(AppEvents)
  \/ SendToUser({"a", "b", ""}, AppEvents)
  \/ DisconnectClient
  \/ GetClientsByFilter(DispatchFilters)
  \/ GetStats
  \/ TransportCancel
  \/ TransportRead

SpecDispatch == Init /\ [][NextDispatch]_vars

\* Registration against the capacity limit, within one instant of the clock.
NextCapacity ==
  \/ CreateConnection({UserA}, {1, 2, 3}, MaxBurst)
  \/ DisconnectClient
  \/ TransportCancel
  \/ TransportRead

SpecCapacity == Init /\ [][NextCapacity]_vars

----------------------------------------------------------------------------
\* Properties.

Registered == 1..Len(clients)

\* The step appended exactly one frame, the frame of the event named `name`,
\* to the stream of client c.
AllEvents == AppEvents \cup {ConnectedEvent, Heartbeat}
FrameOf(name) == formatEvent(CHOOSE e \in AllEvents : e.event = name).message
GotOneFrame(c, name) ==
  streams'[c.controller].frames = Append(streams[c.controller].frames, FrameOf(name))
GotNoFrame(c) == streams'[c.controller].frames = streams[c.controller].frames

\* C1: a client whose write fails during sendToClient, directly or through
\* broadcast or a heartbeat ping, is out of the registry when the call returns:
\* after a sendToClient that returned false its id is not registered, and every
\* client still registered after a broadcast or a tick took that delivery.
C1_FailedWriteUnregisters ==
  /\ (last.op = "sendToClient" /\ ~last.ok) => ~Has(clients, last.id)
  /\ last.op \in {"broadcast", "tick"} => \A i \in Registered : clients[i].delivered = now

\* C2: once the stream's cancel callback has returned, the client id is not in
\* the registry.
C2_CancelUnregisters == last.op = "cancel" => ~Has(clients, last.id)

\* C3: the registry never holds more than maxClients clients; createConnection
\* succeeds and registers the client exactly when the count is below maxClients,
\* and otherwise throws and leaves the registry as it was.
C3_CapacityRespected ==
  [][/\ Len(clients') <= MaxClients
     /\ last'.op = "createConnection" =>
          /\ last'.ok <=> Len(clients) < MaxClients
          /\ last'.ok => Has(clients', last'.id)
          /\ ~last'.ok => clients' = clients]_vars

C3_Witness == last.op = "createConnection" /\ ~last.ok /\ Len(clients) = MaxClients

\* C4: after a heartbeat tick no registry entry has now - lastPing > clientTimeout.
C4_SweepLeavesNoStale ==
  last.op = "tick" => \A i \in Registered : now - clients[i].lastPing <= ClientTimeout

\* C5: disconnectClient(id) on a registered id returns true and removes it, and
\* on an absent id returns false: either way the id is not registered afterwards,
\* and it returned true exactly when it removed a client.
C5_DisconnectIdempotent ==
  [][last'.op = "disconnectClient" =>
       /\ ~Has(clients', last'.id)
       /\ last'.ok <=> Has(clients, last'.id)]_vars

\* C6: broadcast(e) returns the number of clients registered when it is called,
\* and appends exactly one frame for e to the stream of each of them (stated
\* here for an event whose payload serializes).
C6_BroadcastReachesAll ==
  [][(last'.op = "broadcast" /\ last'.event = TestEvent.event) =>
       /\ last'.count = Len(clients)
       /\ \A i \in Registered : GotOneFrame(clients[i], last'.event)]_vars

\* C7: sendToUser(u, e), for every string u, writes one frame to exactly the
\* registered clients whose userId is u, none to any other client, and returns
\* the number of those clients (stated here for an event whose payload
\* serializes).
C7_SendToUserExact ==
  [][(last'.op = "sendToUser" /\ last'.event = TestEvent.event) =>
       LET u == last'.filter.userId
           T == {i \in Registered : clients[i].userId = u}
       IN /\ \A i \in T : GotOneFrame(clients[i], last'.event)
          /\ \A i \in Registered \ T : GotNoFrame(clients[i])
          /\ last'.count = Cardinality(T)]_vars

\* C8: getClientsByFilter(f) returns exactly the registered clients that are in
\* f.clientIds when it is given, have f.userId when it is given, have
\* f.sessionId when it is given, and carry every entry of f.metadata when it is
\* given.
ClaimedMatch(f, c) ==
  /\ f.clientIds.present => c.id \in f.clientIds.ids
  /\ f.userId # Undefined => c.userId = f.userId
  /\ f.sessionId # Undefined => c.sessionId = f.sessionId
  /\ f.metadata.present =>
       \A kv \in f.metadata.entries : c.metadata.present /\ kv \in c.metadata.entries

QueryFilters ==
  [clientIds : {NoIds, IdList({})} \cup {IdList({id}) : id \in Ids(clients)},
   userId : {Undefined, "", "a", "b"},
   sessionId : {Undefined, "", "s"},
   metadata : {NoMeta, Meta({}), Meta({<<"role", "admin">>}),
               Meta({<<"role", "admin">>, <<"team", "x">>}), Meta({<<"team", "y">>})}]

C8_FilterExact ==
  \A f \in QueryFilters :
    Ids(getClientsByFilter(clients, f)) = {clients[i].id : i \in {j \in Registered : ClaimedMatch(f, clients[j])}}

\* C9: after every sendToClient that returned true, for any event, the client's
\* lastPing is the time of that delivery.
C9_DeliveryRefreshesLastPing ==
  (last.op = "sendToClient" /\ last.ok) => Get(clients, last.id).lastPing = now

\* C10: a client with a successful delivery (a ping of this tick included) less
\* than clientTimeout before the sweep of a tick is still registered after it.
C10_RecentDeliverySurvivesSweep ==
  [][last'.op = "tick" =>
       LET pinged == pingLoop(Store, IdsOf(clients), 1).clients
       IN \A i \in 1..Len(pinged) :
            (pinged[i].delivered # Never /\ now - pinged[i].delivered < ClientTimeout)
              => Has(clients', pinged[i].id)]_vars

\* A tick has kept a client that is older than clientTimeout and took this
\* tick's ping.
C10_Witness ==
  /\ last.op = "tick"
  /\ \E i \in Registered :
       /\ clients[i].delivered = now
       /\ now - clients[i].connectedAt > ClientTimeout

\* A stream handle is released once controller.close() has been accepted or
\* the stream has been closed.
Released(s) == s.state = "closed" \/ s.closeRequested

\* The clients of the registry that are no longer in it after the step.  A
\* client is known by its controller: ids can be the same, controllers cannot.
Leavers ==
  {i \in Registered :
     \A j \in 1..Len(clients') : clients'[j].controller # clients[i].controller}

\* C11: whenever a client leaves the registry, whatever the reason (its entry
\* being replaced included), its stream has been released, and close() is
\* accepted by a controller only once, on a stream that was still readable.
C11_LeaverIsClosedOnce ==
  [][/\ \A i \in Leavers : Released(streams'[clients[i].controller])
     /\ \A s \in 1..Len(streams) :
          (~streams[s].closeRequested /\ streams'[s].closeRequested)
            => streams[s].state = "readable"]_vars

\* C12: between operations a client is in the registry if and only if its
\* stream is still writable: every registered client's controller accepts a
\* write, and the id of every stream that accepts a write is registered.
C12_RegisteredIffWritable ==
  /\ \A i \in Registered : CanCloseOrEnqueue(streams[clients[i].controller])
  /\ \A s \in 1..Len(streams) :
       CanCloseOrEnqueue(streams[s]) => Has(clients, streams[s].clientId)

----------------------------------------------------------------------------
\* The engine's whole life: connections, the transport, the heartbeat, and
\* destroy() followed by whatever is called on the engine afterwards.
NextTeardown ==
  \/ CreateConnection({UserA}, {1}, MaxConn)
  \/ DisconnectClient
  \/ TransportCancel
  \/ TransportRead
  \/ Tick
  \/ Advance
  \/ Destroy

SpecTeardown == Init /\ [][NextTeardown]_vars

\* The interval is armed by the constructor and cleared only by destroy().
destroyed == ~timer

\* The step appended a ping frame to some stream.
PingSent ==
  \E s \in 1..Len(streams) :
    streams'[s].frames = Append(streams[s].frames, FrameOf("ping"))

\* C13: after destroy() the heartbeat timer is stopped, the registry is empty
\* and every stream that was open when it was called is released; no ping is
\* sent once destroy() has been called.
C13_DestroyReleasesAll ==
  [][/\ last'.op = "destroy" =>
          /\ ~timer'
          /\ clients' = <<>>
          /\ \A s \in 1..Len(streams) :
               CanCloseOrEnqueue(streams[s]) => Released(streams'[s])
     /\ destroyed => ~PingSent]_vars

\* C14: once destroy() has been called every further operation on the engine
\* is a no-op or a reported failure: createConnection registers no client and
\* opens no stream, nothing is dispatched, and the registry stays empty.
C14_DestroyedStaysEmpty ==
  [][destroyed =>
       /\ clients' = <<>>
       /\ Len(streams') = Len(streams)
       /\ totalEventsSent' = totalEventsSent
       /\ last'.op = "createConnection" => ~last'.ok]_vars

\* The registered clients a filter selects whose stream accepts a write.
WritableMatches(filter) ==
  {i \in Registered :
     /\ FilterKeeps(filter, clients[i])
     /\ CanCloseOrEnqueue(streams[clients[i].controller])}

\* C15: sendToClients(filter, e) writes one frame for e to every matched client
\* whose stream is writable and returns their number, whichever other matched
\* clients fail and wherever they stand in the iteration (every throw is caught
\* inside sendToClient and disconnectClient, so the call itself returns).
C15_FailureIsolated ==
  [][last'.op = "sendToClients" =>
       /\ \A i \in WritableMatches(last'.filter) : GotOneFrame(clients[i], last'.event)
       /\ last'.count = Cardinality(WritableMatches(last'.filter))]_vars

\* The calls that dispatch an event to clients.
DispatchOps == {"sendToClient", "sendToClients", "broadcast", "sendToUser"}

\* The clients whose id is no longer in the registry after the step.
Removed == {i \in Registered : ~Has(clients', clients[i].id)}

\* C16: a client is removed from the registry only in a disconnectClient call,
\* in the stream's cancel callback, in a dispatch or a ping whose write to its stream
\* failed, in the timeout sweep of a tick, or in destroy(); a dispatch to a
\* client whose stream is writable never removes it, whatever the payload.
C16_RemovedOnlyForCause ==
  [][\A i \in Removed :
       \/ last'.op \in {"disconnectClient", "cancel", "destroy"}
       \/ /\ last'.op \in DispatchOps \cup {"tick"}
          /\ ~CanCloseOrEnqueue(streams[clients[i].controller])
       \/ /\ last'.op = "tick"
          /\ now - clients[i].lastPing > ClientTimeout]_vars

\* C17: every createConnection that registers a client allocates an id no
\* earlier createConnection of this engine allocated (each allocation opens one
\* stream, which keeps the id it was opened for), so no registration replaces
\* an entry and no removed id comes back.
C17_IdsNeverReused ==
  \A s, t \in 1..Len(streams) : s # t => streams[s].clientId # streams[t].clientId

\* The userIds carried by registered clients.
CarriedUserIds == {clients[i].userId : i \in Registered} \ {Undefined}

\* C18: getStats().totalClients is the number of registered clients, and for
\* every userId u carried by a registered client clientsByUser[u] is the
\* number of registered clients whose userId is u.
C18_StatsCountClients ==
  LET stats == getStats(Store) IN
  /\ stats.totalClients = Len(clients)
  /\ \A u \in CarriedUserIds :
       /\ u \in DOMAIN stats.clientsByUser
       /\ stats.clientsByUser[u] = Cardinality({i \in Registered : clients[i].userId = u})

\* C19: every createConnection that succeeded has put exactly one connected
\* frame on the new client's stream and registered the client; on every stream
\* the connected frame is the first frame, before any ping or application
\* event, and the only one of its kind.
C19_ConnectedFirstOnce ==
  /\ \A s \in 1..Len(streams) :
       /\ Len(streams[s].frames) >= 1
       /\ \A k \in 1..Len(streams[s].frames) :
            streams[s].frames[k] = FrameOf("connected") <=> k = 1
  /\ (last.op = "createConnection" /\ last.ok) =>
       /\ streams[Len(streams)].frames = <<FrameOf("connected")>>
       /\ Has(clients, last.id)
       /\ Get(clients, last.id).controller = Len(streams)

\* A stream carries its connected frame followed by a ping and by an
\* application event.
C19_Witness ==
  \E s \in 1..Len(streams) :
    /\ Len(streams[s].frames) >= 3
    /\ \E k \in 2..Len(streams[s].frames) : streams[s].frames[k] = FrameOf("ping")
    /\ \E k \in 2..Len(streams[s].frames) : streams[s].frames[k] = FrameOf("test")

----------------------------------------------------------------------------
\* formatEvent on its own, over events of every shape.

\* The string payloads of up to MaxText tokens, a token being "a" or a line
\* break.
Texts == UNION {[1..n -> {"a", NL}] : n \in 0..MaxText}

FormatInputs ==
  {SSEEvent(id, ev, retry, data) :
     id \in {Undefined, "", "7"},
     ev \in {Undefined, "", "test"},
     retry \in {Undefined, "0", "3000"},
     data \in {StringData(t) : t \in Texts} \cup {ObjectData("{message}"), UndefinedData}}

InitFormat ==
  /\ clients = <<>>
  /\ streams = <<>>
  /\ totalEventsSent = 0
  /\ lastEventTime = Never
  /\ timer = TRUE
  /\ nextTick = PingInterval
  /\ now = 0
  /\ \E event \in FormatInputs : last = [Idle EXCEPT !.arg = event]
  /\ hook = HookInit
  /\ singleton = ModuleInit

\* this.formatEvent(event) is called on the event at hand.
FormatEvent ==
  /\ last.op = "new"
  /\ LET f == formatEvent(last.arg)
     IN last' = [last EXCEPT !.op = "formatEvent", !.ok = ~f.threw, !.out = f.message]
  /\ UNCHANGED <<Engine, Clock, Outside>>

NextFormat == FormatEvent

SpecFormat == InitFormat /\ [][NextFormat]_vars

\* The header lines the claim calls for: one per field that is present.
ClaimedHeader(event) ==
  (IF event.id # Undefined THEN <<[field |-> "id", value |-> <<event.id>>]>> ELSE <<>>)
  \o (IF event.event # Undefined THEN <<[field |-> "event", value |-> <<event.event>>]>> ELSE <<>>)
  \o (IF event.retry # Undefined THEN <<[field |-> "retry", value |-> <<event.retry>>]>> ELSE <<>>)

\* segments joined by line breaks
RECURSIVE Join(_)
Join(lines) ==
  IF Len(lines) = 0 THEN <<>>
  ELSE IF Len(lines) = 1 THEN lines[1].value
  ELSE lines[1].value \o <<NL>> \o Join(Tail(lines))

\* C20: for every event formatEvent returns the lines id, event, retry in that
\* order, each exactly when its field is present, then one data line per
\* newline-separated segment of the payload text (no data line holds a line
\* break, and the data lines joined by line breaks are the payload text), then
\* a blank line.
C20_FrameLayout ==
  last.op = "formatEvent" =>
    LET event == last.arg
        header == ClaimedHeader(event)
        n == Len(last.out)
        body == SubSeq(last.out, Len(header) + 1, n - 1)
    IN /\ last.ok
       /\ n >= Len(header) + 2
       /\ SubSeq(last.out, 1, Len(header)) = header
       /\ \A k \in 1..Len(body) :
            /\ body[k].field = "data"
            /\ \A j \in 1..Len(body[k].value) : body[k].value[j] # NL
       /\ Join(body) = event.data.text
       /\ last.out[n] = BlankLine

\* C21: sendToClient(id, e) for an id that is not in the registry returns
\* false and leaves the registry, every stream, totalEventsSent and
\* lastEventTime as they were.
C21_AbsentIdIsNoOp ==
  [][(last'.op = "sendToClient" /\ ~Has(clients, last'.id)) =>
       /\ ~last'.ok
       /\ UNCHANGED Engine]_vars

\* sendToClient was called with an id the engine never allocated and returned
\* false, while a client is registered and time has passed since the last
\* delivery.
C21_Witness ==
  /\ last.op = "sendToClient"
  /\ last.id = NoId
  /\ ~last.ok
  /\ Len(clients) > 0
  /\ lastEventTime < now

\* C22: the interval is disarmed by destroy() only, and every tick leaves it
\* armed for the next one; on a tick every client registered when it starts is
\* pinged once through sendToClient, so each one whose stream is writable gets
\* exactly one ping frame and each other one gets none, wherever the failing
\* clients stand in the iteration.
C22_TickPingsEveryClient ==
  [][/\ (timer /\ ~timer') => last'.op = "destroy"
     /\ last'.op = "tick" =>
          /\ timer'
          /\ nextTick' = nextTick + PingInterval
          /\ \A i \in Registered :
               IF CanCloseOrEnqueue(streams[clients[i].controller])
               THEN GotOneFrame(clients[i], "ping")
               ELSE GotNoFrame(clients[i])]_vars

\* A tick has pinged a client that stands in the registry after a client whose
\* ping failed.
C22_Witness ==
  /\ last.op = "tick"
  /\ \E i, j \in Registered :
       /\ i < j
       /\ ~CanCloseOrEnqueue(streams[clients[i].controller])
       /\ clients[i].delivered < now
       /\ clients[j].delivered = now
       /\ clients[j].lastPing = now

\* The client has taken at least one heartbeat, so its lastPing is the time of
\* the tick that delivered the last one.
HadHeartbeat(c) ==
  \E k \in 1..Len(streams[c.controller].frames) :
    streams[c.controller].frames[k] = FrameOf("ping")

\* C23: with clientTimeout twice pingInterval, a client whose last successful
\* heartbeat is two ticks old is out of the registry when the tick has
\* finished: after a tick every registered client that ever took a heartbeat
\* took one less than two intervals ago.
C23_TwoMissesEvict ==
  (ClientTimeout = 2 * PingInterval /\ last.op = "tick") =>
    \A i \in Registered :
      HadHeartbeat(clients[i]) => now - clients[i].lastPing < 2 * PingInterval

\* The number of sendToClient calls that returned true so far: each of them
\* enqueued one frame, and frames keeps every frame ever enqueued.
RECURSIVE Delivered(_)
Delivered(s) == IF s = 0 THEN 0 ELSE Len(streams[s].frames) + Delivered(s - 1)

\* C24: getStats().totalEventsSent is the number of sendToClient calls that
\* have returned true since construction, connected and ping events included;
\* so it grows by one with each successful delivery and with nothing else.
C24_CountsDeliveries ==
  getStats(Store).totalEventsSent = Delivered(Len(streams))

\* A delivery to a registered client has just failed, after a connected
\* event, a ping and an application event were delivered.
C24_Witness ==
  /\ last.op = "sendToClient"
  /\ ~last.ok
  /\ Has(clients, last.id)
  /\ totalEventsSent >= 3
  /\ \E s \in 1..Len(streams) :
       /\ \E k \in 1..Len(streams[s].frames) : streams[s].frames[k] = FrameOf("ping")
       /\ \E k \in 1..Len(streams[s].frames) : streams[s].frames[k] = FrameOf("test")

----------------------------------------------------------------------------
\* The useSSE hook (hooks/use-sse.ts), one mounted instance.  Delays are in
\* seconds.  autoReconnect and reconnectInterval keep their defaults; the
\* parent passes maxReconnectAttempts and may change it on a later render.

AutoReconnect == TRUE
ReconnectInterval == 5
BackoffCap == 30
AttemptLimits == {2, 3}   \* the values passed as maxReconnectAttempts

RECURSIVE Pow2(_)
Pow2(k) == IF k = 0 THEN 1 ELSE 2 * Pow2(k - 1)

Min(a, b) == IF a < b THEN a ELSE b

\* connect(): nothing when the source is open; otherwise the old source is
\* closed and a new EventSource is made, which starts in CONNECTING.
connect(h) ==
  IF h.eventSource = "open" THEN h
  ELSE [h EXCEPT !.isConnecting = TRUE, !.error = "null", !.eventSource = "connecting"]

\* disconnect()
disconnect(h) ==
  [h EXCEPT !.timeout = NoTimeout, !.eventSource = "null",
            !.isConnected = FALSE, !.isConnecting = FALSE,
            !.reconnectAttempts = 0, !.attempts = 0]

\* eventSource.onerror: reconnectAttempts is the variable of the render that
\* made the connect callback (its dependency list leaves reconnectAttempts out).
onerror(h) ==
  LET h1 == [h EXCEPT !.isConnected = FALSE, !.isConnecting = FALSE,
                      !.error = "Connection error"]
  IN IF AutoReconnect /\ h.closure < h.maxReconnectAttempts
     THEN [h1 EXCEPT !.timeout = Min(ReconnectInterval * Pow2(h.closure), BackoffCap)]
     ELSE IF h.closure >= h.maxReconnectAttempts
     THEN [h1 EXCEPT !.error = "Max reconnection attempts reached"]
     ELSE h1

\* eventSource.onopen
onopen(h) ==
  [h EXCEPT !.isConnected = TRUE, !.isConnecting = FALSE,
            !.reconnectAttempts = 0, !.eventSource = "open", !.attempts = 0]

\* The reconnect timer's callback: setReconnectAttempts(prev + 1); connect().
reconnect(h) ==
  LET h1 == [h EXCEPT !.timeout = NoTimeout, !.reconnectAttempts = @ + 1]
  IN IF h.eventSource = "open" THEN connect(h1)
     ELSE [connect(h1) EXCEPT !.attempts = @ + 1]

HookStep(op, h) ==
  /\ hook' = h
  /\ last' = Call(op)
  /\ UNCHANGED <<Engine, Clock, singleton>>

\* The first render and its effect: connect is made, closing over the
\* reconnectAttempts of this render, and called.
Mount ==
  /\ ~hook.mounted
  /\ \E m \in AttemptLimits :
       HookStep("mount",
                connect([hook EXCEPT !.mounted = TRUE, !.maxReconnectAttempts = m,
                                     !.closure = hook.reconnectAttempts]))

\* A render with another maxReconnectAttempts: connect is made anew, closing
\* over the reconnectAttempts of this render; the effect's cleanup runs
\* disconnect, then the effect runs the new connect.
OptionsChange ==
  /\ hook.mounted
  /\ \E m \in AttemptLimits \ {hook.maxReconnectAttempts} :
       HookStep("rerender",
                connect(disconnect([hook EXCEPT !.maxReconnectAttempts = m,
                                                !.closure = hook.reconnectAttempts])))

\* The stream opens.
OnOpen ==
  /\ hook.eventSource = "connecting"
  /\ HookStep("onopen", onopen(hook))

\* The stream fails; the browser leaves the source retrying or closed.
OnError ==
  /\ hook.eventSource \in {"connecting", "open"}
  /\ \E readyState \in {"connecting", "closed"} :
       HookStep("onerror", [onerror(hook) EXCEPT !.eventSource = readyState])

\* The reconnect timer fires.
TimerFires ==
  /\ hook.timeout # NoTimeout
  /\ hook.attempts < MaxAttempts
  /\ HookStep("reconnect", reconnect(hook))

\* The component calls the connect or the disconnect the hook returned.
Connect ==
  /\ hook.mounted
  /\ HookStep("connect", connect(hook))

Disconnect ==
  /\ hook.mounted
  /\ HookStep("disconnect", disconnect(hook))

\* The component unmounts: the effect's cleanup runs disconnect and the
\* instance is gone.
Unmount ==
  /\ hook.mounted
  /\ HookStep("unmount", HookInit)

NextHook ==
  \/ Mount
  \/ OptionsChange
  \/ OnOpen
  \/ OnError
  \/ TimerFires
  \/ Connect
  \/ Disconnect
  \/ Unmount

SpecHook == Init /\ [][NextHook]_vars

\* C25: a stream error that follows k reconnects made without an open in
\* between (k = 0, 1, 2, ...) schedules the next reconnect after
\* min(reconnectInterval * 2^k, 30 s).
C25_BackoffDoubles ==
  [][(last'.op = "onerror" /\ hook.attempts < hook.maxReconnectAttempts) =>
       hook'.timeout = Min(ReconnectInterval * Pow2(hook.attempts), BackoffCap)]_vars

\* C26: the hook never makes more than maxReconnectAttempts reconnects without
\* an open in between; the stream error that follows the last of them schedules
\* no reconnect and sets the error to "Max reconnection attempts reached".
C26_ReconnectsBounded ==
  /\ hook.attempts <= hook.maxReconnectAttempts
  /\ (last.op = "onerror" /\ hook.attempts = hook.maxReconnectAttempts) =>
       /\ hook.timeout = NoTimeout
       /\ hook.error = "Max reconnection attempts reached"

----------------------------------------------------------------------------
\* utils/notifications.ts: the module-level eventService and the functions
\* around it.  singleton.engines holds every EventService the module has made,
\* each with its fields and its interval; singleton.eventService is the index
\* of the current one, 0 for null.

\* new EventService(config): empty fields, the interval armed.
NewEngine ==
  [clients |-> <<>>, streams |-> <<>>, totalEventsSent |-> 0,
   lastEventTime |-> Never, timer |-> TRUE]

StoreOf(e) ==
  [clients |-> e.clients, streams |-> e.streams,
   totalEventsSent |-> e.totalEventsSent, lastEventTime |-> e.lastEventTime]

WithStore(e, st) ==
  [e EXCEPT !.clients = st.clients, !.streams = st.streams,
            !.totalEventsSent = st.totalEventsSent,
            !.lastEventTime = st.lastEventTime]

\* engine.destroy(): clearInterval, then the loop and the clear.
destroyEngine(e) == [WithStore(e, destroy(StoreOf(e))) EXCEPT !.timer = FALSE]

\* Mutant: initializeSSE dropping the current engine without destroy().
initializeSSELeaky(m) ==
  [engines |-> Append(m.engines, NewEngine), eventService |-> Len(m.engines) + 1]

\* initializeSSE(config)
initializeSSE(m) ==
  LET engines == IF m.eventService # 0
                 THEN [m.engines EXCEPT ![m.eventService] = destroyEngine(@)]
                 ELSE m.engines
  IN [engines |-> Append(engines, NewEngine), eventService |-> Len(engines) + 1]

\* getEventService(): the module after the call; eventService is then the
\* engine returned.
getEventService(m) ==
  IF m.eventService = 0
  THEN [engines |-> Append(m.engines, NewEngine), eventService |-> Len(m.engines) + 1]
  ELSE m

\* cleanupSSE()
cleanupSSE(m) ==
  IF m.eventService # 0
  THEN [engines |-> [m.engines EXCEPT ![m.eventService] = destroyEngine(@)],
        eventService |-> 0]
  ELSE m

\* Whether a call makes an engine, against the bound on engines.
MakesEngine(m) == m.eventService = 0

\* The streams opened and the events sent over all engines, against the bounds.
RECURSIVE TotalStreams(_, _)
TotalStreams(m, e) ==
  IF e = 0 THEN 0 ELSE Len(m.engines[e].streams) + TotalStreams(m, e - 1)

RECURSIVE TotalEvents(_, _)
TotalEvents(m, e) ==
  IF e = 0 THEN 0 ELSE m.engines[e].totalEventsSent + TotalEvents(m, e - 1)

ModuleStep(m) ==
  /\ singleton' = m
  /\ UNCHANGED <<Engine, Clock, last, hook>>

InitializeSSE ==
  /\ Len(singleton.engines) < MaxEngines
  /\ ModuleStep(initializeSSE(singleton))

GetEventService ==
  /\ MakesEngine(singleton) => Len(singleton.engines) < MaxEngines
  /\ ModuleStep(getEventService(singleton))

CleanupSSE ==
  /\ singleton.eventService # 0
  /\ ModuleStep(cleanupSSE(singleton))

\* The options the GET route of /api/sse passes for ?userId=a.
RouteOptions == [userId |-> "a", sessionId |-> Undefined, metadata |-> Meta({})]

\* GET /api/sse: getEventService().createConnection(options); a throw at
\* capacity is answered with status 500.
RouteConnect ==
  /\ MakesEngine(singleton) => Len(singleton.engines) < MaxEngines
  /\ \E r \in Rand :
       LET m == getEventService(singleton)
           e == m.engines[m.eventService]
       IN IF atCapacity(StoreOf(e))
          THEN ModuleStep(m)
          ELSE /\ TotalStreams(m, Len(m.engines)) < MaxConn
               /\ TotalEvents(m, Len(m.engines)) < MaxEvents
               /\ ModuleStep(
                    [m EXCEPT !.engines[m.eventService] =
                       WithStore(e, createConnection(StoreOf(e), RouteOptions, r))])

\* broadcast(event) of notifications.ts: getEventService().broadcast(event)
BroadcastWrapper ==
  /\ MakesEngine(singleton) => Len(singleton.engines) < MaxEngines
  /\ LET m == getEventService(singleton)
         e == m.engines[m.eventService]
     IN /\ TotalEvents(m, Len(m.engines)) + Len(e.clients) <= MaxEvents
        /\ ModuleStep(
             [m EXCEPT !.engines[m.eventService] =
                WithStore(e, broadcast(StoreOf(e), TestEvent).st)])

\* The transport closes a connection of the current engine.
RouteCancel ==
  /\ singleton.eventService # 0
  /\ LET e == singleton.engines[singleton.eventService] IN
     \E s \in 1..Len(e.streams) :
       /\ e.streams[s].state = "readable"
       /\ LET st == StoreOf(e)
              r == cancelCallback([st EXCEPT !.streams[s] = cancelled(@)],
                                  e.streams[s].clientId)
          IN ModuleStep(
               [singleton EXCEPT !.engines[singleton.eventService] = WithStore(e, r.st)])

NextSingleton ==
  \/ InitializeSSE
  \/ GetEventService
  \/ CleanupSSE
  \/ RouteConnect
  \/ BroadcastWrapper
  \/ RouteCancel

SpecSingleton == Init /\ [][NextSingleton]_vars

\* C27: at most one engine made through the module has its heartbeat interval
\* armed, and it is the current one; an engine that stops being the current
\* one in a step has by then been destroyed: its interval is cleared, its
\* registry is empty and the stream of every client it held is released.
C27_OneLiveEngine ==
  [][/\ \A e \in 1..Len(singleton'.engines) :
          singleton'.engines[e].timer => e = singleton'.eventService
     /\ \A e \in 1..Len(singleton.engines) :
          (singleton.eventService = e /\ singleton'.eventService # e) =>
            /\ ~singleton'.engines[e].timer
            /\ singleton'.engines[e].clients = <<>>
            /\ \A i \in 1..Len(singleton.engines[e].clients) :
                 Released(singleton'.engines[e].streams[
                            singleton.engines[e].clients[i].controller])]_vars

\* initializeSSE has replaced an engine that held a client with an open
\* stream, and cleanupSSE has dropped one: two destroyed engines are behind
\* the current one.
C27_Witness ==
  /\ Len(singleton.engines) = 3
  /\ singleton.eventService = 3
  /\ singleton.engines[3].timer
  /\ \E e \in {1, 2} : Len(singleton.engines[e].streams) > 0
  /\ \A e \in {1, 2} : ~singleton.engines[e].timer /\ singleton.engines[e].clients = <<>>
====
